---- MODULE Spec2Model ----
(***************************************************************************)
(* The relay server of src/Backend.py: the connection registry, the        *)
(* binding map, the timer map, the per-connection handler handle_client,   *)
(* the delivery tasks of delay_send_msg and the heartbeat task, interleaved *)
(* at their await points by the asyncio scheduler.                         *)
(***************************************************************************)
EXTENDS Integers, Sequences, FiniteSets, TLC

\* ---------------------------------------------------------------- bounds
MaxConns == 3
MaxMsgs == 2
\* delivery tasks ever created, and the largest send count a caller passes
MaxTasks == 2
MaxSends == 2
\* delivery tasks created while the handlers run beside them
MaxSideTasks == 1
\* messages read while delivery tasks or the heartbeat task run beside the
\* handlers
MaxSideMsgs == 1
\* connections accepted while delivery tasks run beside the handlers
MaxSideConns == 2
\* messages read where the order of the forwards is followed
MaxOrderMsgs == 3

\* Connection k is the k-th accepted websocket; uuid4 gives it the identifier
\* k.  Ghost is a string that is the identifier of no connection.
Conns == 1..MaxConns
Ghost == MaxConns + 1
Ids == Conns \cup {Ghost}
\* an absent dict key / an unset local
None == 0

\* str(uuid.uuid4()) is five groups of hex digits joined by "-".  A string is
\* modelled as the sequence of its "-"-free pieces: the identifier of
\* connection k differs from the others in its first group.
Uuid(k) == <<ToString(k), "0000", "4000", "8000", "000000000000">>
Segs(i) == IF i \in Conns THEN Uuid(i) ELSE <<"ghost">>
Channels == {"A", "B"}
\* f"{client_id}-{channel}"
Key(cid, channel) == Segs(cid) \o <<channel>>
Keys == { Key(i, ch) : i \in Ids, ch \in Channels }
Tasks == 1..MaxTasks

Types == {"bind", "cmd", "msg"}
Bodies == {"pulse"}
Shapes == {"notjson", "scalar", "partial", "object"}

\* What a client can put on the wire: text that is no JSON ("notjson"), JSON
\* that is a number ("scalar"), the JSON object {} ("partial"), and an object
\* with the four required fields.
Malformed(s) ==
    [shape |-> s, type |-> "cmd", clientId |-> None, targetId |-> None, message |-> "pulse"]

Wire ==
    { Malformed(s) : s \in Shapes \ {"object"} } \cup
    [shape : {"object"}, type : Types, clientId : Ids, targetId : Ids, message : Bodies]

\* One call of send on connection w's transport with json.dumps of the
\* four-field dict; ok is FALSE when the transport was closed and the call
\* raised ConnectionClosed instead of writing.
Out(w, t, a, b, m, ok) ==
    [to |-> w, type |-> t, clientId |-> a, targetId |-> b, message |-> m, ok |-> ok]

VARIABLES
    client_connections,  \* the identifiers that are keys of the registry
    binding_relations,   \* identifier -> partner identifier, None when absent
    open,                \* ws.open of each connection's transport
    pc,                  \* where each connection's handle_client task stands
    client_id,           \* handle_client's local client_id
    target_id,           \* handle_client's local target_id across an await
    received,            \* number of messages the read loops have taken
    handled,             \* <<[conn, msg]>> when the last step took a message off the wire
    sent,                \* the send calls the last step made, in order
    held,                \* the live partner of the assigned identifier when cleanup began
    breaks,              \* breaks[p][a]: break/209 payloads naming a sent to p
    client_timers,       \* timer key -> the task stored under it
    task,                \* each delivery task: where it stands and its locals
    hb_pc,               \* where the send_heartbeat task stands
    hb_at,               \* the registry entry its dict iterator yielded last
    hb_used,             \* the size of the registry when the iterator was made
    hb_live,             \* the connections registered and open when the tick began
    beats,               \* the connections sent a heartbeat in the tick so far
    delivered            \* per connection: <<from, n>>, the n-th message read, received
                         \* on connection from, was forwarded to it, in the order written

hb_vars == <<hb_pc, hb_at, hb_used, hb_live, beats>>

vars == <<client_connections, binding_relations, open, pc, client_id, target_id,
          received, handled, sent, held, breaks, client_timers, task,
          hb_pc, hb_at, hb_used, hb_live, beats, delivered>>

\* a task slot no create_task has filled yet
\* (n: the send count it was created with; sends: the payloads it has written)
NoTask ==
    [st |-> "none", key |-> <<>>, ws |-> None, n |-> 0, total_sends |-> 0, sends |-> 0]
\* "new": created, not yet run; "sleep": suspended in line 95; "cancelling":
\* cancel() was called while it slept and CancelledError is yet to be raised
\* in it; "done": it returned; "cancelled": it ended by CancelledError
TaskSts == {"none", "new", "sleep", "cancelling", "done", "cancelled"}

CleanupPcs == {"close_partner", "unbind"}
EndPcs == {"done", "aborted"}
Pcs == {"idle", "loop", "bind_target"} \cup CleanupPcs \cup EndPcs

TypeOK ==
    /\ client_connections \subseteq Conns
    /\ binding_relations \in [Ids -> Ids \cup {None}]
    /\ open \in [Conns -> BOOLEAN]
    /\ pc \in [Conns -> Pcs]
    /\ client_id \in [Conns -> Ids]
    /\ target_id \in [Conns -> Ids \cup {None}]
    /\ received \in Nat
    /\ handled \in {<<>>} \cup {<<[conn |-> c, msg |-> m]>> : c \in Conns, m \in Wire}
    /\ Len(sent) <= 3
    /\ \A i \in 1..Len(sent) : sent[i].to \in Conns
    /\ held \in [Conns -> Ids \cup {None}]
    /\ breaks \in [Conns -> [Ids -> Nat]]
    /\ DOMAIN client_timers \subseteq Keys
    /\ \A k \in DOMAIN client_timers : client_timers[k] \in Tasks
    /\ \A t \in Tasks :
          /\ task[t].st \in TaskSts
          /\ task[t].n \in 0..MaxSends
          /\ task[t].total_sends \in -1..MaxSends
          /\ task[t].sends \in 0..(MaxSends + 1)
    /\ hb_pc \in {"sleep", "send", "dead"}
    /\ hb_at \in 0..MaxConns
    /\ hb_used \in 0..MaxConns
    /\ hb_live \subseteq Conns
    /\ beats \subseteq Conns
    /\ \A p \in Conns : \A i \in 1..Len(delivered[p]) :
          delivered[p][i][1] \in Conns /\ delivered[p][i][2] \in 1..received

Init ==
    /\ client_connections = {}
    /\ binding_relations = [i \in Ids |-> None]
    /\ open = [c \in Conns |-> FALSE]
    /\ pc = [c \in Conns |-> "idle"]
    /\ client_id = [c \in Conns |-> c]
    /\ target_id = [c \in Conns |-> None]
    /\ received = 0
    /\ handled = <<>>
    /\ sent = <<>>
    /\ held = [c \in Conns |-> None]
    /\ breaks = [c \in Conns |-> [i \in Ids |-> 0]]
    /\ client_timers = [k \in {} |-> 1]
    /\ task = [t \in Tasks |-> NoTask]
    /\ hb_pc = "sleep"
    /\ hb_at = 0
    /\ hb_used = 0
    /\ hb_live = {}
    /\ beats = {}
    /\ delivered = [p \in Conns |-> <<>>]

\* ------------------------------------------------------------ dict helpers
Bound(b, a) == b[a] # None
Values(b) == { b[i] : i \in Ids } \ {None}
\* del d[k] for each k of ks that is present
Del(b, ks) == [i \in Ids |-> IF i \in ks THEN None ELSE b[i]]

\* del d[k]
Drop(d, k) == [x \in DOMAIN d \ {k} |-> d[x]]

\* ------------------------------------------------------------ the timer map
\* the pair of the timer map and the tasks after some calls
Timers(ct, tk) == [ct |-> ct, task |-> tk]

\* task.cancel() where the task is not done (lines 70-71): a task that has
\* not run yet never runs its body, a sleeping one gets CancelledError when
\* the scheduler next runs it
Cancel(rec) ==
    CASE rec.st = "new" -> [rec EXCEPT !.st = "cancelled"]
      [] rec.st = "sleep" -> [rec EXCEPT !.st = "cancelling"]
      [] OTHER -> rec

\* lines 65-73
cancel_timer(ct, tk, cid, channel) ==
    LET timer_key == Key(cid, channel)
    IN  IF timer_key \in DOMAIN ct
        THEN Timers(Drop(ct, timer_key), [tk EXCEPT ![ct[timer_key]] = Cancel(@)])
        ELSE Timers(ct, tk)

\* key.startswith(f"{client_id}-")
StartsWith(key, cid) ==
    /\ Len(key) > Len(Segs(cid))
    /\ SubSeq(key, 1, Len(Segs(cid))) = Segs(cid)

\* lines 250-252 over the keys of the snapshot list(client_timers.keys());
\* key.split("-")[1] is the second piece of the key
RECURSIVE CancelTimersOf(_, _, _, _)
CancelTimersOf(keys, ct, tk, cid) ==
    IF keys = {} THEN Timers(ct, tk)
    ELSE LET key == CHOOSE k \in keys : TRUE
             r == IF StartsWith(key, cid)
                  THEN cancel_timer(ct, tk, cid, key[2])
                  ELSE Timers(ct, tk)
         IN  CancelTimersOf(keys \ {key}, r.ct, r.task, cid)

\* ------------------------------------------------------- validate_relation
\* validate_relation without the connection match of lines 57-58
validate_relation_NoSocketMatch(conns, b, cid, tid, ws) ==
    IF cid \notin conns \/ tid \notin conns THEN "404"
    ELSE IF b[cid] # tid THEN "402"
    ELSE "200"

validate_relation(conns, b, cid, tid, ws) ==
    IF cid \notin conns \/ tid \notin conns THEN "404"
    ELSE IF cid # ws /\ tid # ws THEN "404"
    ELSE IF b[cid] # tid THEN "402"
    ELSE "200"

\* ------------------------------------------------- one message, lines 126-221
\* The result of handling one message up to its first suspension:
\*   b     the binding map afterwards
\*   out   the send calls made, in order
\*   cid   the local client_id afterwards
\*   tid   the local target_id kept across the await of a successful bind
\*   next  "loop" (back to the read loop), "bind_target" (suspended in the
\*         first bind/200 send), "closed" (ConnectionClosed left the inner
\*         try), "error" (another exception left the inner try)
Result(b, out, cid, tid, next) ==
    [b |-> b, out |-> out, cid |-> cid, tid |-> tid, next |-> next]

\* `except Exception` of lines 214-221 for a message that parsed to a dict
\* with the given clientId and targetId, after the send calls pre: error/500
\* goes to ws, and on a closed ws that send raises out of the inner try.
Fault(ws, b, cid, echoC, echoT, pre) ==
    Result(b, Append(pre, Out(ws, "error", echoC, echoT, "500", open[ws])), cid, None,
           IF open[ws] THEN "loop" ELSE "closed")

\* `await ws.send(reply)` followed by `continue`, inside the inner try.
Reply(ws, b, cid, t, echoC, echoT, code) ==
    IF open[ws] THEN Result(b, <<Out(ws, t, echoC, echoT, code, TRUE)>>, cid, None, "loop")
    ELSE Fault(ws, b, cid, echoC, echoT, <<Out(ws, t, echoC, echoT, code, FALSE)>>)

\* HandleBind whose already-bound test looks at the origin only
HandleBind_OriginOnly(ws, conns, b, cid, tid) ==
    IF tid \notin conns THEN Reply(ws, b, cid, "bind", cid, tid, "401")
    ELSE IF Bound(b, cid)
    THEN Reply(ws, b, cid, "bind", cid, tid, "400")
    ELSE LET b2 == [[b EXCEPT ![cid] = tid] EXCEPT ![tid] = cid]
         IN  IF cid \notin conns
             THEN Fault(ws, b2, cid, cid, tid, <<>>)
             ELSE IF ~open[cid]
             THEN Fault(ws, b2, cid, cid, tid, <<Out(cid, "bind", cid, tid, "200", FALSE)>>)
             ELSE Result(b2, <<Out(cid, "bind", cid, tid, "200", TRUE)>>, cid, tid,
                         "bind_target")

\* HandleBind whose registry test of line 149 looks up the origin
HandleBind_OriginLookup(ws, conns, b, cid, tid) ==
    IF cid \notin conns THEN Reply(ws, b, cid, "bind", cid, tid, "401")
    ELSE IF Bound(b, cid) \/ tid \in Values(b)
    THEN Reply(ws, b, cid, "bind", cid, tid, "400")
    ELSE LET b2 == [[b EXCEPT ![cid] = tid] EXCEPT ![tid] = cid]
         IN  IF ~open[cid]
             THEN Fault(ws, b2, cid, cid, tid, <<Out(cid, "bind", cid, tid, "200", FALSE)>>)
             ELSE Result(b2, <<Out(cid, "bind", cid, tid, "200", TRUE)>>, cid, tid,
                         "bind_target")

\* lines 147-182, up to the await of line 179
HandleBind(ws, conns, b, cid, tid) ==
    IF tid \notin conns THEN Reply(ws, b, cid, "bind", cid, tid, "401")
    ELSE IF Bound(b, cid) \/ tid \in Values(b)
    THEN Reply(ws, b, cid, "bind", cid, tid, "400")
    ELSE LET b2 == [[b EXCEPT ![cid] = tid] EXCEPT ![tid] = cid]
         IN  IF cid \notin conns
             THEN Fault(ws, b2, cid, cid, tid, <<>>)                       \* KeyError
             ELSE IF ~open[cid]
             THEN Fault(ws, b2, cid, cid, tid, <<Out(cid, "bind", cid, tid, "200", FALSE)>>)
             ELSE Result(b2, <<Out(cid, "bind", cid, tid, "200", TRUE)>>, cid, tid,
                         "bind_target")

\* HandleForward without the validation of lines 185-193
HandleForward_Unvalidated(ws, conns, b, type_, cid, tid, message) ==
    IF tid \notin conns THEN Fault(ws, b, cid, cid, tid, <<>>)
    ELSE IF ~open[tid]
    THEN Fault(ws, b, cid, cid, tid, <<Out(tid, type_, cid, tid, message, FALSE)>>)
    ELSE Result(b, <<Out(tid, type_, cid, tid, message, TRUE)>>, cid, None, "loop")

\* HandleForward that looks up the origin's connection at line 196
HandleForward_ToOrigin(ws, conns, b, type_, cid, tid, message) ==
    LET err_code == validate_relation(conns, b, cid, tid, ws)
    IN  IF err_code # "200" THEN Reply(ws, b, cid, "error", cid, tid, err_code)
        ELSE IF ~open[cid]
        THEN Fault(ws, b, cid, cid, tid, <<Out(cid, type_, cid, tid, message, FALSE)>>)
        ELSE Result(b, <<Out(cid, type_, cid, tid, message, TRUE)>>, cid, None, "loop")

\* lines 184-203
HandleForward(ws, conns, b, type_, cid, tid, message) ==
    LET err_code == validate_relation(conns, b, cid, tid, ws)
    IN  IF err_code # "200" THEN Reply(ws, b, cid, "error", cid, tid, err_code)
        ELSE IF ~open[tid]
        THEN Fault(ws, b, cid, cid, tid, <<Out(tid, type_, cid, tid, message, FALSE)>>)
        ELSE Result(b, <<Out(tid, type_, cid, tid, message, TRUE)>>, cid, None, "loop")

\* lines 126-221 for the payload m read by connection ws whose local is cid0
HandleMessage(ws, conns, b, cid0, m) ==
    CASE m.shape = "notjson" ->
            \* json.JSONDecodeError, lines 205-213: the send is outside the
            \* inner try, its ConnectionClosed goes straight to line 223
            Result(b, <<Out(ws, "error", None, None, "403", open[ws])>>, cid0, None,
                   IF open[ws] THEN "loop" ELSE "closed")
      [] m.shape = "scalar" ->
            \* `k in data` raises TypeError; in the handler data.get raises
            \* AttributeError before anything is sent
            Result(b, <<>>, cid0, None, "error")
      [] m.shape = "partial" ->
            Reply(ws, b, cid0, "error", None, None, "403")
      [] OTHER ->
            IF m.type = "bind"
            THEN HandleBind(ws, conns, b, m.clientId, m.targetId)
            ELSE HandleForward(ws, conns, b, m.type, m.clientId, m.targetId, m.message)

\* ------------------------------------------------------------ the actions
\* A client closes its socket or the network drops it.
CloseTransport(c) ==
    /\ UNCHANGED <<hb_vars, delivered>>
    /\ pc[c] \notin {"idle"} \cup EndPcs
    /\ open[c]
    /\ open' = [open EXCEPT ![c] = FALSE]
    /\ handled' = <<>>
    /\ sent' = <<>>
   
    /\ UNCHANGED <<client_connections, binding_relations, pc, client_id, target_id,
                   received, held, breaks, client_timers, task>>

\* lines 110-122: register, then the first bind notification.  ok is whether
\* the transport is still up when the notification is written; when it is
\* not, send raises outside the try and no cleanup runs.
Accept(c, ok) ==
    /\ UNCHANGED <<hb_vars, delivered>>
    /\ pc[c] = "idle"
    /\ client_connections' = client_connections \cup {c}
    /\ client_id' = [client_id EXCEPT ![c] = c]
    /\ open' = [open EXCEPT ![c] = ok]
    /\ pc' = [pc EXCEPT ![c] = IF ok THEN "loop" ELSE "aborted"]
    /\ sent' = <<Out(c, "bind", c, None, "targetId", ok)>>
    /\ handled' = <<>>
   
    /\ UNCHANGED <<binding_relations, target_id, received, held, breaks, client_timers, task>>

\* The partner of the identifier assigned to c, when that partner is another
\* registered connection whose transport is open; None otherwise.
LivePartner(c, b) ==
    IF b[c] \in client_connections \ {c} /\ open[b[c]] THEN b[c] ELSE None

\* lines 225-241 with the local client_id = cid and the binding map b, after
\* the send calls out of the same step; and lines 243-254 when no partner is
\* notified.  handle_client is then left ("done": the finally block ran to its
\* end, lines 249-252 included) and websockets closes the transport.
Cleanup(c, cid, b, out) ==
    LET conns == client_connections \ {cid}
        tid == b[cid]
        timers == CancelTimersOf(DOMAIN client_timers, client_timers, task, cid)
    IN  /\ client_connections' = conns
       
        /\ client_id' = [client_id EXCEPT ![c] = cid]
        /\ held' = [held EXCEPT ![c] = LivePartner(c, b)]
        /\ IF tid # None /\ tid \in conns /\ open[tid]
           THEN /\ sent' = Append(out, Out(tid, "break", cid, tid, "209", TRUE))
                /\ breaks' = [breaks EXCEPT ![tid][cid] = @ + 1]
                /\ pc' = [pc EXCEPT ![c] = "close_partner"]
                /\ target_id' = [target_id EXCEPT ![c] = tid]
                /\ binding_relations' = b
                /\ UNCHANGED <<open, client_timers, task>>
           ELSE /\ sent' = out
                /\ client_timers' = timers.ct
                /\ task' = timers.task
                /\ binding_relations' = IF tid # None THEN Del(b, {cid, tid}) ELSE b
                /\ pc' = [pc EXCEPT ![c] = "done"]
                /\ open' = [open EXCEPT ![c] = FALSE]
                /\ target_id' = [target_id EXCEPT ![c] = None]
                /\ UNCHANGED breaks

\* what follows the handling r of a message: the read loop, the await of
\* line 179, or (an exception left the inner try) the finally block
Continue(c, r) ==
    IF r.next \in {"closed", "error"}
    THEN Cleanup(c, r.cid, r.b, r.out)
    ELSE /\ binding_relations' = r.b
         /\ client_id' = [client_id EXCEPT ![c] = r.cid]
         /\ target_id' = [target_id EXCEPT ![c] = r.tid]
         /\ pc' = [pc EXCEPT ![c] = r.next]
         /\ sent' = r.out
        
         /\ UNCHANGED <<client_connections, open, held, breaks, client_timers, task>>

\* A client can name the identifiers uuid4 has handed out so far and strings
\* that are no identifier; it cannot guess one that is yet to be drawn.
Known(i) == i \in {Ghost} \cup {k \in Conns : pc[k] # "idle"}

Sendable(m) == m.shape = "object" => Known(m.clientId) /\ Known(m.targetId)

\* delivered after the send calls out made for the n-th message read, which
\* came in on connection c: the forwards that were written
Written(c, n, out) ==
    [p \in Conns |->
        delivered[p] \o
        SelectSeq([i \in 1..Len(out) |-> IF out[i].to = p /\ out[i].ok
                                               /\ out[i].type \notin {"bind", "error"}
                                          THEN <<c, n>> ELSE <<>>],
                  LAMBDA e : e # <<>>)]

\* Receive that takes the next message while the handling of the one before
\* is suspended in line 179
Receive_Overlapping(c, m) ==
    /\ UNCHANGED hb_vars
    /\ pc[c] \in {"loop", "bind_target"}
    /\ Sendable(m)
    /\ received' = received + 1
    /\ handled' = <<[conn |-> c, msg |-> m]>>
    /\ LET r == HandleMessage(c, client_connections, binding_relations, client_id[c], m)
       IN  /\ Continue(c, r)
           /\ delivered' = Written(c, received + 1, r.out)

\* one iteration of `async for message in ws`, up to its first suspension;
\* a closed transport still yields the messages queued before it closed
Receive(c, m) ==
    /\ UNCHANGED hb_vars
    /\ pc[c] = "loop"
    /\ Sendable(m)
    /\ received' = received + 1
    /\ handled' = <<[conn |-> c, msg |-> m]>>
    /\ LET r == HandleMessage(c, client_connections, binding_relations, client_id[c], m)
       IN  /\ Continue(c, r)
           /\ delivered' = Written(c, received + 1, r.out)

\* line 180, after the await of line 179
BindNotifyTarget(c) ==
    /\ UNCHANGED <<hb_vars, delivered>>
    /\ pc[c] = "bind_target"
    /\ LET cid == client_id[c]
           tid == target_id[c]
       IN  Continue(c,
             IF tid \notin client_connections
             THEN Fault(c, binding_relations, cid, cid, tid, <<>>)          \* KeyError
             ELSE IF ~open[tid]
             THEN Fault(c, binding_relations, cid, cid, tid,
                        <<Out(tid, "bind", cid, tid, "200", FALSE)>>)
             ELSE Result(binding_relations, <<Out(tid, "bind", cid, tid, "200", TRUE)>>,
                         cid, None, "loop"))
    /\ handled' = <<>>
    /\ UNCHANGED received

\* the read loop ends (the transport is closed and nothing is queued) and
\* the finally block starts
LoopEnd(c) ==
    /\ UNCHANGED <<hb_vars, delivered>>
    /\ pc[c] = "loop"
    /\ ~open[c]
    /\ Cleanup(c, client_id[c], binding_relations, <<>>)
    /\ handled' = <<>>
    /\ UNCHANGED received

\* line 242, after the await of line 236; a KeyError leaves handle_client
\* with the finally block cut short ("aborted")
ClosePartner(c) ==
    /\ UNCHANGED <<hb_vars, delivered>>
    /\ pc[c] = "close_partner"
    /\ IF target_id[c] \in client_connections
       THEN /\ open' = [open EXCEPT ![target_id[c]] = FALSE]
            /\ pc' = [pc EXCEPT ![c] = "unbind"]
            /\ UNCHANGED target_id
       ELSE /\ pc' = [pc EXCEPT ![c] = "aborted"]
            /\ open' = [open EXCEPT ![c] = FALSE]
            /\ target_id' = [target_id EXCEPT ![c] = None]
    /\ handled' = <<>>
    /\ sent' = <<>>
   
    /\ UNCHANGED <<client_connections, binding_relations, client_id, received, held, breaks,
                   client_timers, task>>

\* lines 243-254, after the await of line 242
Unbind(c) ==
    /\ UNCHANGED <<hb_vars, delivered>>
    /\ pc[c] = "unbind"
    /\ IF Bound(binding_relations, client_id[c])
       THEN LET timers == CancelTimersOf(DOMAIN client_timers, client_timers, task,
                                         client_id[c])
            IN  /\ binding_relations' = Del(binding_relations, {client_id[c], target_id[c]})
                /\ pc' = [pc EXCEPT ![c] = "done"]
                /\ client_timers' = timers.ct
                /\ task' = timers.task
       ELSE /\ pc' = [pc EXCEPT ![c] = "aborted"]                     \* KeyError
            /\ UNCHANGED <<binding_relations, client_timers, task>>
    /\ open' = [open EXCEPT ![c] = FALSE]
    /\ target_id' = [target_id EXCEPT ![c] = None]
    /\ handled' = <<>>
    /\ sent' = <<>>
   
    /\ UNCHANGED <<client_connections, client_id, received, held, breaks>>

Next ==
    \/ \E c \in Conns, ok \in BOOLEAN : Accept(c, ok)
    \/ \E c \in Conns : CloseTransport(c)
    \/ \E c \in Conns, m \in Wire : received < MaxMsgs /\ Receive(c, m)
    \/ \E c \in Conns : BindNotifyTarget(c)
    \/ \E c \in Conns : LoopEnd(c)
    \/ \E c \in Conns : ClosePartner(c)
    \/ \E c \in Conns : Unbind(c)

Spec == Init /\ [][Next]_vars

\* ------------------------------------------------------ the delivery tasks
\* start(ownerId, targetId, payload, totalSends, interval, channel): a router
\* stores asyncio.create_task(delay_send_msg(...)) under the key, which no
\* active timer holds; the owner and the target are registered identifiers.
StartTimer(t, cid, tid, channel, n) ==
    /\ UNCHANGED <<hb_vars, delivered>>
    /\ task[t].st = "none"
    /\ \A u \in 1..(t - 1) : task[u].st # "none"
    /\ cid \in client_connections /\ tid \in client_connections
    /\ Key(cid, channel) \notin DOMAIN client_timers
    /\ task' = [task EXCEPT ![t] =
                  [st |-> "new", key |-> Key(cid, channel), ws |-> tid, n |-> n,
                   total_sends |-> n, sends |-> 0]]
    /\ client_timers' = client_timers @@ (Key(cid, channel) :> t)
    /\ handled' = <<>> /\ sent' = <<>>
    /\ UNCHANGED <<client_connections, binding_relations, open, pc, client_id, target_id,
                   received, held, breaks>>

\* lines 105-107: the finally block of delay_send_msg, the task ending as st
Finally(t, rec, st) ==
    /\ task' = [task EXCEPT ![t] = [rec EXCEPT !.st = st]]
    /\ client_timers' = IF rec.key \in DOMAIN client_timers
                        THEN Drop(client_timers, rec.key) ELSE client_timers

\* lines 89-91 and 99-101: one send and the decrement
Sent(rec, wrote) ==
    [rec EXCEPT !.total_sends = @ - 1, !.sends = @ + (IF wrote THEN 1 ELSE 0)]

\* line 94: the loop test, then the sleep of line 95 or lines 104-107
LoopTest(t, rec) ==
    IF rec.total_sends > 0
    THEN /\ task' = [task EXCEPT ![t] = [rec EXCEPT !.st = "sleep"]]
         /\ UNCHANGED client_timers
    ELSE Finally(t, rec, "done")

Payload(ws) == <<Out(ws, "msg", None, None, "pulse", TRUE)>>

\* lines 85-95: the first run of the task
TimerFirst(t) ==
    /\ UNCHANGED <<hb_vars, delivered>>
    /\ task[t].st = "new"
    /\ LET rec == task[t]
           wrote == open[rec.ws]
       IN  /\ sent' = IF wrote THEN Payload(rec.ws) ELSE <<>>
           /\ LoopTest(t, Sent(rec, wrote))
    /\ handled' = <<>>
    /\ UNCHANGED <<client_connections, binding_relations, open, pc, client_id, target_id,
                   received, held, breaks>>

\* lines 96-101, after the sleep of line 95
TimerWake(t) ==
    /\ UNCHANGED <<hb_vars, delivered>>
    /\ task[t].st = "sleep"
    /\ LET rec == task[t]
       IN  IF ~open[rec.ws]
           THEN /\ sent' = <<>>
                /\ Finally(t, rec, "done")
           ELSE /\ sent' = Payload(rec.ws)
                /\ LoopTest(t, Sent(rec, TRUE))
    /\ handled' = <<>>
    /\ UNCHANGED <<client_connections, binding_relations, open, pc, client_id, target_id,
                   received, held, breaks>>

\* CancelledError raised in line 95
TimerCancelled(t) ==
    /\ UNCHANGED <<hb_vars, delivered>>
    /\ task[t].st = "cancelling"
    /\ Finally(t, task[t], "cancelled")
    /\ handled' = <<>> /\ sent' = <<>>
    /\ UNCHANGED <<client_connections, binding_relations, open, pc, client_id, target_id,
                   received, held, breaks>>

\* await cancel_timer(cid, channel)
CancelTimer(cid, channel) ==
    /\ UNCHANGED <<hb_vars, delivered>>
    /\ cid \in client_connections
    /\ \E t \in Tasks : task[t].st # "none"
    /\ LET r == cancel_timer(client_timers, task, cid, channel)
       IN  /\ client_timers' = r.ct
           /\ task' = r.task
    /\ handled' = <<>> /\ sent' = <<>>
    /\ UNCHANGED <<client_connections, binding_relations, open, pc, client_id, target_id,
                   received, held, breaks>>

NextT ==
    \/ \E c \in 1..MaxSideConns, ok \in BOOLEAN : Accept(c, ok)
    \/ \E c \in Conns : CloseTransport(c)
    \/ \E c \in Conns, m \in Wire : received < MaxSideMsgs /\ Receive(c, m)
    \/ \E c \in Conns : BindNotifyTarget(c)
    \/ \E c \in Conns : LoopEnd(c)
    \/ \E c \in Conns : ClosePartner(c)
    \/ \E c \in Conns : Unbind(c)
    \/ \E t \in 1..MaxSideTasks, cid, tid \in Conns, ch \in Channels, n \in 0..MaxSends :
          StartTimer(t, cid, tid, ch, n)
    \/ \E t \in Tasks : TimerFirst(t)
    \/ \E t \in Tasks : TimerWake(t)
    \/ \E t \in Tasks : TimerCancelled(t)
    \/ \E cid \in Conns, ch \in Channels : CancelTimer(cid, ch)

SpecT == Init /\ [][NextT]_vars

\* the delivery tasks and the calls of cancel_timer beside connections that
\* are accepted and close, no message being read
NextD ==
    \/ \E c \in 1..MaxSideConns, ok \in BOOLEAN : Accept(c, ok)
    \/ \E c \in Conns : CloseTransport(c)
    \/ \E t \in Tasks, cid, tid \in Conns, ch \in Channels, n \in 0..MaxSends :
          StartTimer(t, cid, tid, ch, n)
    \/ \E t \in Tasks : TimerFirst(t)
    \/ \E t \in Tasks : TimerWake(t)
    \/ \E t \in Tasks : TimerCancelled(t)
    \/ \E cid \in Conns, ch \in Channels : CancelTimer(cid, ch)

SpecD == Init /\ [][NextD]_vars

\* the handlers alone, reading up to MaxOrderMsgs messages
NextO ==
    \/ \E c \in 1..MaxSideConns, ok \in BOOLEAN : Accept(c, ok)
    \/ \E c \in Conns : CloseTransport(c)
    \/ \E c \in Conns, m \in Wire : received < MaxOrderMsgs /\ Receive(c, m)
    \/ \E c \in Conns : BindNotifyTarget(c)
    \/ \E c \in Conns : LoopEnd(c)
    \/ \E c \in Conns : ClosePartner(c)
    \/ \E c \in Conns : Unbind(c)

SpecO == Init /\ [][NextO]_vars

\* ----------------------------------------------------------- send_heartbeat
\* The registry is a dict: its iterator walks the entries in insertion order,
\* skips the deleted ones, and raises RuntimeError from next() when the size
\* of the dict is not the one it was made with.  Below, connection k is the
\* k-th accepted, so the entries stand in the order of the identifiers.

\* lines 45-47: the heartbeat written to the connection registered as c
Heartbeat(c) == Out(c, "heartbeat", c, binding_relations[c], "200", TRUE)

\* lines 43-44: the first entry after position i whose connection is open,
\* 0 when the iterator is exhausted
NextOpen(i) ==
    LET s == { k \in client_connections : k > i /\ open[k] }
    IN  IF s = {} THEN 0 ELSE CHOOSE k \in s : \A j \in s : k <= j

\* lines 43-48 from position i of the iterator, got the connections sent a
\* heartbeat in this tick: up to the await of line 47 or the sleep of line 48
Walk(i, got) ==
    LET k == NextOpen(i)
    IN  IF k = 0
        THEN /\ hb_pc' = "sleep" /\ hb_at' = 0
             /\ sent' = <<>>
             /\ beats' = got
        ELSE /\ hb_pc' = "send" /\ hb_at' = k
             /\ sent' = <<Heartbeat(k)>>
             /\ beats' = got \cup {k}

\* lines 41-47 after the sleep of line 48
HeartbeatTick ==
    /\ hb_pc = "sleep"
    /\ IF client_connections = {}
       THEN /\ sent' = <<>>
            /\ UNCHANGED hb_vars
       ELSE /\ hb_used' = Cardinality(client_connections)
            /\ hb_live' = { c \in client_connections : open[c] }
            /\ Walk(0, {})
    /\ handled' = <<>>
    /\ UNCHANGED <<client_connections, binding_relations, open, pc, client_id, target_id,
                   received, held, breaks, client_timers, task, delivered>>

\* the await of line 47 ends: with ConnectionClosed (raised) when the
\* transport went down while send was suspended, else the loop goes on with
\* next() of the iterator
HeartbeatResume(raised) ==
    /\ hb_pc = "send"
    /\ raised => ~open[hb_at]
    /\ IF raised \/ Cardinality(client_connections) # hb_used
       THEN /\ hb_pc' = "dead"
            /\ sent' = <<>>
            /\ UNCHANGED <<hb_at, beats>>
       ELSE Walk(hb_at, beats)
    /\ handled' = <<>>
    /\ UNCHANGED <<client_connections, binding_relations, open, pc, client_id, target_id,
                   received, held, breaks, client_timers, task, hb_used, hb_live, delivered>>

NextH ==
    \/ \E c \in 1..MaxSideConns, ok \in BOOLEAN :
          (\A k \in 1..(c - 1) : pc[k] # "idle") /\ Accept(c, ok)
    \/ \E c \in Conns : CloseTransport(c)
    \/ \E c \in Conns, m \in Wire : received < MaxSideMsgs /\ Receive(c, m)
    \/ \E c \in Conns : BindNotifyTarget(c)
    \/ \E c \in Conns : LoopEnd(c)
    \/ \E c \in Conns : ClosePartner(c)
    \/ \E c \in Conns : Unbind(c)
    \/ HeartbeatTick
    \/ \E raised \in BOOLEAN : HeartbeatResume(raised)

SpecH == Init /\ [][NextH]_vars

\* ------------------------------------------------------------ the claims
IsBind(m) == m.shape = "object" /\ m.type = "bind"
IsForward(m) == m.shape = "object" /\ m.type # "bind"
Registered(i) == i \in client_connections
\* no identifier gets a partner it did not have
NoNewBinding == \A i \in Ids : binding_relations'[i] \in {binding_relations[i], None}
\* the message the step took off the wire, if it took one
Taken == { handled'[i] : i \in 1..Len(handled') }

\* C1: in every reachable state the binding map is symmetric (a bound to b
\* implies b bound to a) and one-to-one (no identifier is the partner of two
\* different identifiers).
C1_BindingSymmetricOneToOne ==
    /\ \A a \in Ids : Bound(binding_relations, a)
                        => binding_relations[binding_relations[a]] = a
    /\ \A a, a2 \in Ids : Bound(binding_relations, a)
                            /\ binding_relations[a] = binding_relations[a2] => a = a2

\* C2: when the cleanup of a connection c ends, and the identifier assigned
\* to c was bound to another registered, open connection p when the cleanup
\* began, then p has been sent exactly one break/209 naming c as clientId, p's
\* transport is closed, and the binding map has no entry for c or for p.
C2_DisconnectBreaksPartner ==
    [][\A c \in Conns :
          (pc[c] \notin EndPcs /\ pc'[c] \in EndPcs /\ held'[c] # None)
            => /\ breaks'[held'[c]][c] = 1
               /\ ~open'[held'[c]]
               /\ ~Bound(binding_relations', c)
               /\ ~Bound(binding_relations', held'[c])]_vars

\* C3: once handle_client of an accepted connection has ended (its transport
\* is then closed), the identifier assigned to it at accept is no longer in
\* the registry.
C3_ClosedConnectionUnregistered ==
    \A c \in Conns : pc[c] \in EndPcs => ~Registered(c)

\* C6: a bind request whose origin or target is not a registered connection
\* adds no entry to the binding map.
C6_BindNeedsBothRegistered ==
    [][\A h \in Taken : LET c == h.conn  m == h.msg IN
          (IsBind(m)
             /\ (~Registered(m.clientId) \/ ~Registered(m.targetId)))
            => NoNewBinding]_vars

\* C7: whenever a bind request records a binding, send is called with
\* bind/200 carrying its origin and target on the origin's connection and,
\* after that await, on the target's connection.
C7_BindNotifiesBoth ==
    [][/\ \A h \in Taken : LET c == h.conn  m == h.msg IN
             (IsBind(m)
                /\ HandleMessage(c, client_connections, binding_relations,
                                 client_id[c], m).b # binding_relations)
               => /\ Len(sent') >= 1
                  /\ sent'[1].to = m.clientId
                  /\ sent'[1].type = "bind" /\ sent'[1].message = "200"
                  /\ sent'[1].clientId = m.clientId /\ sent'[1].targetId = m.targetId
                  /\ pc'[c] = "bind_target"
       /\ \A c \in Conns :
             (pc[c] = "bind_target" /\ BindNotifyTarget(c))
               => /\ Len(sent') >= 1
                  /\ sent'[1].to = target_id[c]
                  /\ sent'[1].type = "bind" /\ sent'[1].message = "200"
                  /\ sent'[1].clientId = client_id[c] /\ sent'[1].targetId = target_id[c]
      ]_vars

\* C10: when handling a message received on an open transport raises an
\* unexpected fault (the payload is JSON but no object, or the origin of a
\* recorded bind is not in the registry), the sender is sent error/500, the
\* read loop goes on and the connection stays registered.
InternalFault(c, m) ==
    \/ m.shape = "scalar"
    \/ /\ IsBind(m)
       /\ Registered(m.targetId)
       /\ ~Bound(binding_relations, m.clientId)
       /\ m.targetId \notin Values(binding_relations)
       /\ ~Registered(m.clientId)

C10_FaultIsolated ==
    [][\A h \in Taken : LET c == h.conn  m == h.msg IN
          (open[c] /\ Registered(c)
             /\ InternalFault(c, m))
            => /\ \E i \in 1..Len(sent') :
                     /\ sent'[i].to = c /\ sent'[i].type = "error"
                     /\ sent'[i].message = "500" /\ sent'[i].ok
               /\ pc'[c] = "loop"
               /\ c \in client_connections']_vars

\* in a step that is connection c handling m: the first send call is the
\* reply (t, code) on c's own transport echoing m's identifiers, the binding
\* map is as it was when the handling ends, and on an open transport nothing
\* else is sent and the read loop goes on
RepliesOnly(c, m, t, code) ==
    /\ Len(sent') >= 1
    /\ sent'[1] = Out(c, t, m.clientId, m.targetId, code, open[c])
    /\ HandleMessage(c, client_connections, binding_relations, client_id[c], m).b
         = binding_relations
    /\ NoNewBinding
    /\ open[c] => /\ Len(sent') = 1
                  /\ binding_relations' = binding_relations
                  /\ pc'[c] = "loop"

AlreadyBound(m) ==
    Bound(binding_relations, m.clientId) \/ m.targetId \in Values(binding_relations)

\* C4 as claimed: a bind request whose origin already has a partner, or whose
\* target already is someone's partner, is answered bind/400 and leaves the
\* binding map unchanged.
C4_RebindAlways400 ==
    [][\A h \in Taken : LET c == h.conn  m == h.msg IN
          (IsBind(m) /\ AlreadyBound(m))
            => RepliesOnly(c, m, "bind", "400")]_vars

\* C4 as amended: such a request is answered bind/400 when its target is a
\* registered connection and bind/401 when it is not; in both cases the
\* binding map is unchanged.
C4_Rebind400WhenTargetRegistered ==
    [][\A h \in Taken : LET c == h.conn  m == h.msg IN
          (IsBind(m) /\ AlreadyBound(m))
            => RepliesOnly(c, m, "bind",
                           IF Registered(m.targetId) THEN "400" ELSE "401")]_vars

\* a bind/400 reached a connection while the binding it protects stands
C4_Witness ==
    \E i \in 1..Len(sent) :
        /\ sent[i].type = "bind" /\ sent[i].message = "400" /\ sent[i].ok
        /\ Registered(sent[i].targetId)
        /\ \/ Bound(binding_relations, sent[i].clientId)
           \/ sent[i].targetId \in Values(binding_relations)

\* C5: a bind request whose target is not a registered connection is answered
\* bind/401 on the requesting connection and leaves the binding map unchanged.
C5_UnknownTarget401 ==
    [][\A h \in Taken : LET c == h.conn  m == h.msg IN
          (IsBind(m) /\ ~Registered(m.targetId))
            => RepliesOnly(c, m, "bind", "401")]_vars

C5_Witness ==
    \E i \in 1..Len(sent) :
        /\ sent[i].type = "bind" /\ sent[i].message = "401" /\ sent[i].ok
        /\ ~Registered(sent[i].targetId)

Unauthorised(m) ==
    \/ ~Bound(binding_relations, m.clientId)
    \/ binding_relations[m.clientId] # m.targetId
    \/ ~Registered(m.clientId)
    \/ ~Registered(m.targetId)

NothingForwarded == \A i \in 1..Len(sent') : sent'[i].type \in {"error", "break"}

Validated(c, m) ==
    validate_relation(client_connections, binding_relations, m.clientId, m.targetId, c) = "200"

C11_MalformedGets403 ==
    [][\A h \in Taken : LET c == h.conn  m == h.msg IN
          (m.shape # "object" /\ open[c])
            => /\ sent' = <<Out(c, "error", None, None, "403", TRUE)>>
               /\ client_connections' = client_connections
               /\ binding_relations' = binding_relations
               /\ client_timers' = client_timers
               /\ client_id'[c] = client_id[c]
               /\ pc'[c] = "loop"]_vars

Active(rec) == rec.st \in {"new", "sleep"}

\* C12: when the finally block of a connection c has run to its end, the
\* timer map has no key made of the identifier assigned to c and a channel,
\* and every task that was active under such a key has been cancelled.
C12_CleanupCancelsOwnTimers ==
    [][\A c \in Conns :
          (pc[c] \notin EndPcs /\ pc'[c] = "done")
            => \A ch \in Channels :
                  /\ Key(c, ch) \notin DOMAIN client_timers'
                  /\ \A t \in Tasks :
                        (task[t].key = Key(c, ch) /\ Active(task[t]))
                          => task'[t].st \in {"cancelling", "cancelled"}]_vars

\* C13: a delivery task created with send count n that returns while its
\* target is open has written exactly n payloads (for every n, 0 and 1
\* included); it writes nothing once its target is closed, so that a target
\* closing after k < n sends gets exactly k; and when it returns its key is no
\* longer in the timer map.
C13_SendsExactlyN ==
    [][\A t \in Tasks :
          /\ (task[t].st # "done" /\ task'[t].st = "done")
                => /\ open[task[t].ws] => task'[t].sends = task[t].n
                   /\ task'[t].sends <= task[t].n
                   /\ task[t].key \notin DOMAIN client_timers'
          /\ (task[t].st # "none" /\ ~open[task[t].ws])
                => task'[t].sends = task[t].sends]_vars

\* C14: a call cancel_timer(cid, channel) stops the active timer of that key,
\* which stands before its next send (it writes no payload from then on),
\* and leaves the key out of the timer map; when no timer of that key is
\* active the call changes neither the timer map nor any task.
C14_CancelStopsTimer ==
    [][/\ \A cid \in Conns, ch \in Channels :
             CancelTimer(cid, ch)
               => /\ Key(cid, ch) \notin DOMAIN client_timers'
                  /\ \A t \in Tasks :
                        (Active(task[t]) /\ task[t].key = Key(cid, ch))
                          => task'[t].st \in {"cancelling", "cancelled"}
                  /\ (\A t \in Tasks : ~(Active(task[t]) /\ task[t].key = Key(cid, ch)))
                        => UNCHANGED <<client_timers, task>>
       /\ \A t \in Tasks :
             task[t].st \in {"cancelling", "cancelled"}
               => task'[t].sends = task[t].sends]_vars

\* C15: every heartbeat goes to a registered connection whose transport is
\* open and that has had none in this tick, with that connection's identifier
\* as clientId and its partner at that moment (none if unbound) as targetId;
\* and when a tick ends, every connection that was registered and open when
\* it began and still is has been sent one, whatever the handlers did
\* meanwhile.
C15_HeartbeatOnePerLive ==
    [][/\ \A i \in 1..Len(sent') :
             sent'[i].type = "heartbeat"
               => LET c == sent'[i].to
                  IN  /\ c \in client_connections /\ open[c]
                      /\ hb_pc = "send" => c \notin beats
                      /\ sent'[i] = Out(c, "heartbeat", c, binding_relations[c], "200", TRUE)
       /\ (hb_pc = "send" /\ hb_pc' # "send")
             => \A c \in hb_live :
                   (c \in client_connections' /\ open'[c]) => c \in beats']_vars

\* C16: the heartbeat task never ends: it is in its sleep or in a send, from
\* which the scheduler takes it to the next tick.
C16_HeartbeatNeverEnds == hb_pc # "dead"

\* C17: a finally block that went on to notify the partner (it suspended in
\* line 236 or 242) still runs to its end whatever happened meanwhile: it is
\* left only after the timer cancellation of lines 249-252 has run, and the
\* binding map then has no entry for its client_id nor for its target_id.
C17_CleanupStepsIndependent ==
    [][\A c \in Conns :
          (pc[c] \in CleanupPcs /\ pc'[c] \in EndPcs)
            => /\ pc'[c] = "done"
               /\ ~Bound(binding_relations', client_id[c])
               /\ ~Bound(binding_relations', target_id[c])]_vars

\* the step wrote the non-bind message m to some connection
Forwarded(m) ==
    \E i \in 1..Len(sent') :
        /\ sent'[i].type = m.type /\ sent'[i].ok
        /\ sent'[i].clientId = m.clientId /\ sent'[i].targetId = m.targetId

\* C18 as claimed: a non-bind message is forwarded only when the connection
\* it was received on is the one registered under its clientId.
C18_ForwardOnlyFromOrigin ==
    [][\A h \in Taken : LET c == h.conn  m == h.msg IN
          (IsForward(m) /\ Forwarded(m))
            => (Registered(m.clientId) /\ c = m.clientId)]_vars

\* C18 as amended: a non-bind message is forwarded only when the connection
\* it was received on is the one registered under its clientId or the one
\* registered under its targetId, both identifiers are registered and
\* clientId is bound to targetId; it then goes to the targetId's connection.
C18_ForwardOnlyFromParty ==
    [][\A h \in Taken : LET c == h.conn  m == h.msg IN
          (IsForward(m) /\ Forwarded(m))
            => /\ Registered(m.clientId) /\ Registered(m.targetId)
               /\ c \in {m.clientId, m.targetId}
               /\ binding_relations[m.clientId] = m.targetId
               /\ \A i \in 1..Len(sent') :
                     sent'[i].type = m.type => sent'[i].to = m.targetId]_vars

\* a message naming its sender as targetId and the sender's partner as
\* clientId was forwarded
C18_Witness ==
    /\ Len(handled) = 1 /\ Len(sent) = 1
    /\ IsForward(handled[1].msg)
    /\ sent[1].type = handled[1].msg.type /\ sent[1].ok
    /\ handled[1].conn = handled[1].msg.targetId
    /\ handled[1].conn # handled[1].msg.clientId
    /\ binding_relations[handled[1].msg.clientId] = handled[1].conn

\* the connections whose handle_client took the step
Actors == { c \in Conns : pc'[c] # pc[c] } \cup { h.conn : h \in Taken }

\* identifier i is the one assigned to a connection of xs or the partner of one
OwnOrPartner(i, xs) == \E x \in xs : i = x \/ i = binding_relations[x]

\* C19: a step of the handler of connection X (a message of X handled, X's
\* finally block) removes from the registry no identifier but the one
\* assigned to X, and deletes the binding and closes the transport of no
\* identifier but that one and its partner.
C19_OnlyOwnIdentifierTouched ==
    [][Actors # {}
         => /\ \A k \in client_connections \ client_connections' : k \in Actors
            /\ \A k \in Conns : (open[k] /\ ~open'[k]) => OwnOrPartner(k, Actors)
            /\ \A i \in Ids : (Bound(binding_relations, i) /\ ~Bound(binding_relations', i))
                                 => OwnOrPartner(i, Actors)]_vars

\* C20: a connection's handler takes a message off the wire only when it
\* stands at the head of its read loop, the handling of the message before
\* (its sends included) being over; and the messages received on one
\* connection and forwarded to a connection were written to it in the order
\* in which they were read.
C20_HandledInArrivalOrder ==
    [][/\ \A h \in Taken : pc[h.conn] = "loop"
       /\ \A p \in Conns : \A i, j \in 1..Len(delivered'[p]) :
             (i < j /\ delivered'[p][i][1] = delivered'[p][j][1])
               => delivered'[p][i][2] < delivered'[p][j][2]]_vars

\* two messages received on one connection were forwarded to its partner,
\* another connection
C20_Witness ==
    \E p \in Conns :
        /\ Len(delivered[p]) >= 2
        /\ delivered[p][1][1] = delivered[p][2][1]
        /\ delivered[p][1][1] # p
        /\ binding_relations[delivered[p][1][1]] = p

====
